---- MODULE Spec2Model ----
(***************************************************************************)
(* A model of electron-playwright-example: the test helpers                *)
(* (findLatestBuild, parseElectronApp, electronWaitForFunction and the     *)
(* bridge calls into the main process) and the parts of the demo           *)
(* application's main process they act on.                                 *)
(*                                                                         *)
(* JavaScript strings are TLA+ strings; the string and path functions the  *)
(* helpers call (includes, endsWith, split, toLowerCase, path.join,        *)
(* path.dirname, path.basename) are computed character by character.       *)
(***************************************************************************)
EXTENDS Integers, Sequences, FiniteSets, TLC

VARIABLES
    \* findLatestBuild
    outDir,      \* the listing of <cwd>/out: a sequence of entries, or Missing
    latest,      \* what findLatestBuild() returned or threw
    \* parseElectronApp
    buildDir,    \* the argument of parseElectronApp
    fs,          \* the filesystem below the build directory
    info,        \* what parseElectronApp(buildDir) returned or threw
    \* electronWaitForFunction
    probe,       \* what the probe does at its 1st, 2nd, ... evaluation
    wpc,         \* where the call of electronWaitForFunction is
    evals,       \* the evaluations of the probe made in the main process
    inFlight,    \* the electronApp.evaluate calls awaiting their result
    waited,      \* the milliseconds spent in setTimeout
    wlog,        \* the evaluations and waits in the order they ended
    wresult,     \* what electronWaitForFunction returned or threw
    waitId,      \* the menu item id waitForMenuItem waits for, "" for none
    \* the application's main process and the bridge calls into it
    listeners,   \* ipcMain's listeners of every message, in the order added
    menu,        \* the items of the application menu
    count,       \* the window counter of main/index.ts
    windows,     \* the ids of the windows created
    ready,       \* the app's ready event has been handled
    bridge,      \* the bridge call in flight, or the last one and its result
    invoked,     \* the ipcMain handlers run by the last bridge call, in order
    clicked,     \* the menu items whose click ran in the last bridge call
    env,         \* process.env.CI and process.platform of the main process
    prefs,       \* the webPreferences of every window created
    titles,      \* document.title of every window created
    open,        \* the windows that are open, by their place in windows
    quit,        \* app.quit() has been called
    \* the run of e2e-tests/main.spec.ts by the test runner
    rpc,         \* what the worker is at: beforeAll, a test, afterAll, done
    test,        \* the number of the test at hand, or of the next one
    stmt,        \* the statement of the test to run next
    waiting,     \* the test is suspended in an await
    flight,      \* the driver operations issued and not yet returned, in order
    electronApp, \* the worker's electronApp: a place in apps, 0 for undefined
    apps,        \* every app launched: its state and the close() calls on it
    failures,    \* the tests failed so far
    spawned,     \* the windows the worker's app has created
    opening,     \* the windows created whose 'window' event is still to come
    fired,       \* the trigger in flight has run in the app
    lost,        \* triggered windows whose event came with no wait registered
    got,         \* the windows the waits for the 'window' event obtained
    page         \* the test file's page: a window's number, 0 for undefined

buildVars == <<outDir, latest>>
parseVars == <<buildDir, fs, info>>
waitVars == <<probe, wpc, evals, inFlight, waited, wlog, wresult, waitId>>
winVars == <<count, windows, prefs, titles, open>>
appVars == <<listeners, menu, ready, bridge, invoked, clicked, env, quit, winVars>>
eventVars == <<spawned, opening, fired, lost, got, page>>
runVars == <<rpc, test, stmt, waiting, flight, electronApp, apps, failures, eventVars>>
vars == <<buildVars, parseVars, waitVars, appVars, runVars>>

(***************************************************************************)
(* Strings                                                                 *)
(***************************************************************************)

\* s.substring(i - 1, j): the characters i..j of s (1-based), "" when j < i
Sub(s, i, j) == SubSeq(s, i, j)

\* s.includes(t)
Includes(s, t) ==
    \E i \in 1..(Len(s) - Len(t) + 1) : Sub(s, i, i + Len(t) - 1) = t

\* s.endsWith(t)
EndsWith(s, t) ==
    /\ Len(s) >= Len(t)
    /\ Sub(s, Len(s) - Len(t) + 1, Len(s)) = t

\* s.startsWith(t)
StartsWith(s, t) ==
    /\ Len(s) >= Len(t)
    /\ Sub(s, 1, Len(t)) = t

\* s.indexOf(c) + 1 for a one-character c: the first position of c, 0 if none
IndexOf(s, c) ==
    LET hits == {i \in 1..Len(s) : Sub(s, i, i) = c}
    IN  IF hits = {} THEN 0 ELSE CHOOSE i \in hits : \A j \in hits : i <= j

\* s.lastIndexOf(c) + 1 for a one-character c
LastIndexOf(s, c) ==
    LET hits == {i \in 1..Len(s) : Sub(s, i, i) = c}
    IN  IF hits = {} THEN 0 ELSE CHOOSE i \in hits : \A j \in hits : i >= j

\* s.split(c) for a one-character separator c
RECURSIVE Split(_, _)
Split(s, c) ==
    LET i == IndexOf(s, c)
    IN  IF i = 0 THEN <<s>>
        ELSE <<Sub(s, 1, i - 1)>> \o Split(Sub(s, i + 1, Len(s)), c)

UpperCaseLetters == "ABCDEFGHIJKLMNOPQRSTUVWXYZ"
LowerCaseLetters == "abcdefghijklmnopqrstuvwxyz"

\* the lower-case letter of every upper-case letter
LowerOf ==
    [c \in {Sub(UpperCaseLetters, i, i) : i \in 1..Len(UpperCaseLetters)} |->
        LET i == IndexOf(UpperCaseLetters, c) IN Sub(LowerCaseLetters, i, i)]

\* one character of s.toLowerCase()
LowerChar(c) == IF c \in DOMAIN LowerOf THEN LowerOf[c] ELSE c

\* s.toLowerCase() / s.toLocaleLowerCase()
RECURSIVE ToLowerCase(_)
ToLowerCase(s) ==
    IF s = "" THEN ""
    ELSE LowerChar(Sub(s, 1, 1)) \o ToLowerCase(Sub(s, 2, Len(s)))

\* array.join(sep)
RECURSIVE JoinWith(_, _)
JoinWith(parts, sep) ==
    IF parts = <<>> THEN ""
    ELSE IF Len(parts) = 1 THEN parts[1]
    ELSE parts[1] \o sep \o JoinWith(Tail(parts), sep)

(***************************************************************************)
(* Paths (node's path module, POSIX flavour)                               *)
(***************************************************************************)

\* the segments of a path once ".", "" and ".." are resolved
RECURSIVE NormalizeSegments(_, _, _)
NormalizeSegments(segs, acc, isAbs) ==
    IF segs = <<>> THEN acc
    ELSE LET h == Head(segs)
             t == Tail(segs)
         IN  IF h = "" \/ h = "." THEN NormalizeSegments(t, acc, isAbs)
             ELSE IF h = ".."
                  THEN IF acc # <<>> /\ acc[Len(acc)] # ".."
                       THEN NormalizeSegments(t, SubSeq(acc, 1, Len(acc) - 1), isAbs)
                       ELSE IF isAbs THEN NormalizeSegments(t, acc, isAbs)
                            ELSE NormalizeSegments(t, Append(acc, ".."), isAbs)
             ELSE NormalizeSegments(t, Append(acc, h), isAbs)

\* path.normalize(p)
Normalize(p) ==
    LET isAbs == StartsWith(p, "/")
        body  == JoinWith(NormalizeSegments(Split(p, "/"), <<>>, isAbs), "/")
    IN  IF isAbs THEN "/" \o body
        ELSE IF body = "" THEN "." ELSE body

\* path.join(...parts)
PathJoin(parts) ==
    LET given == SelectSeq(parts, LAMBDA x : x # "")
    IN  IF given = <<>> THEN "." ELSE Normalize(JoinWith(given, "/"))

\* path.dirname(p), for a path without a trailing slash
Dirname(p) ==
    LET i == LastIndexOf(p, "/")
    IN  IF i = 0 THEN "."
        ELSE IF i = 1 THEN "/"
        ELSE Sub(p, 1, i - 1)

\* path.basename(p), for a path without a trailing slash
Basename(p) == Sub(p, LastIndexOf(p, "/") + 1, Len(p))

\* the working directory of the test run: path.resolve('./')
Cwd == "/proj"

\* path.resolve(p)
Resolve(p) == IF StartsWith(p, "/") THEN Normalize(p) ELSE PathJoin(<<Cwd, p>>)

(***************************************************************************)
(* findLatestBuild                                                         *)
(***************************************************************************)

\* the largest number of entries of the out directory
MaxEntries == 3
\* modification times are 1..MaxTime
MaxTime == 3

\* the entries an out directory may hold: build directories, a directory
\* without a platform token, a plain file whose name has a platform token
DirEntries ==
    { [name |-> "app-darwin-x64",     isDirectory |-> TRUE],
      [name |-> "app-win32-x64",      isDirectory |-> TRUE],
      [name |-> "App-Linux-arm64",    isDirectory |-> TRUE],
      [name |-> "make",               isDirectory |-> TRUE],
      [name |-> "app-darwin-x64.zip", isDirectory |-> FALSE] }

\* fs.statSync(path.join(outDir, fileName)) of every listed file
Stats ==
    { [name |-> e.name, isDirectory |-> e.isDirectory, mtimeMs |-> t] :
        e \in DirEntries, t \in 1..MaxTime }

\* the listings of out: no name twice, each entry with its kind and time
Listings ==
    { l \in UNION {[1..n -> Stats] : n \in 0..MaxEntries} :
        \A i, j \in DOMAIN l : l[i].name = l[j].name => i = j }

\* an out directory that does not exist
MissingDir == [exists |-> FALSE, entries |-> <<>>]

\* what a call has produced so far
NoResult == [kind |-> "none", value |-> ""]
Returned(v) == [kind |-> "return", value |-> v]
Threw(e) == [kind |-> "throw", value |-> e]

NoBuildFound == "No build found in out directory"
ENOENT == "ENOENT: no such file or directory"

platforms ==
    <<"win32", "win", "windows", "darwin", "mac", "macos", "osx", "linux", "ubuntu">>

\* array.includes(x) / array.some(...)
Range(seq) == {seq[i] : i \in DOMAIN seq}

\* a "-" delimited part of the lower-cased name is a platform
isBuild(fileName) ==
    \E part \in Range(Split(ToLowerCase(fileName), "-")) : part \in Range(platforms)

\* the value the first map() leaves for one file: {name, time}, or undefined
Undefined == [defined |-> FALSE, name |-> "", time |-> 0]
BuildOrUndefined(stats) ==
    IF stats.isDirectory /\ isBuild(stats.name)
    THEN [defined |-> TRUE, name |-> stats.name, time |-> stats.mtimeMs]
    ELSE Undefined

\* a comparator that sorts the oldest build first
compareAscending(a, b) == a.time - b.time
\* the comparator given to sort(): (a, b) => b.time - a.time
compare(a, b) == b.time - a.time

\* one insertion of a stable sort: x goes behind every element that does not
\* compare greater than it
RECURSIVE InsertSorted(_, _)
InsertSorted(x, s) ==
    IF s = <<>> THEN <<x>>
    ELSE IF compare(Head(s), x) <= 0
         THEN <<Head(s)>> \o InsertSorted(x, Tail(s))
         ELSE <<x>> \o s

RECURSIVE SortDefined(_, _)
SortDefined(todo, done) ==
    IF todo = <<>> THEN done
    ELSE SortDefined(Tail(todo), InsertSorted(Head(todo), done))

\* Array.prototype.sort(compare): the undefined elements go to the end
\* without being compared, the others are sorted (stably) by compare
ArraySort(arr) ==
    SortDefined(SelectSeq(arr, LAMBDA x : x.defined), <<>>)
      \o SelectSeq(arr, LAMBDA x : ~x.defined)

\* builds.map(...).sort(...).map(...)[0], then the throw or the join
findLatestBuild(dir) ==
    LET rootDir == Resolve("./")
        outPath == PathJoin(<<rootDir, "out">>)
        mapped  == [i \in DOMAIN dir.entries |-> BuildOrUndefined(dir.entries[i])]
        sorted  == ArraySort(mapped)
        names   == [i \in DOMAIN sorted |->
                     IF sorted[i].defined THEN sorted[i].name ELSE ""]
        latestBuild == IF names = <<>> THEN "" ELSE names[1]
    IN  IF ~dir.exists THEN Threw(ENOENT)
        ELSE IF latestBuild = "" THEN Threw(NoBuildFound)
        ELSE Returned(PathJoin(<<outPath, latestBuild>>))

BuildIdle == outDir = MissingDir /\ latest = NoResult

InitBuild ==
    /\ outDir \in {MissingDir} \cup {[exists |-> TRUE, entries |-> l] : l \in Listings}
    /\ latest = NoResult

\* the test calls findLatestBuild()
FindLatestBuild ==
    /\ latest = NoResult
    /\ latest' = findLatestBuild(outDir)
    /\ UNCHANGED outDir

(***************************************************************************)
(* parseElectronApp                                                        *)
(***************************************************************************)

\* the largest number of "-" delimited parts of a build directory's name
MaxParts == 2

\* the parts a build directory's name is made of
Words ==
    { "app", "machine",
      "win", "windows", "win32", "darwin", "mac", "macos", "osx",
      "linux", "ubuntu", "debian",
      "x32", "i386", "x64", "arm64" }

\* the names of build directories: 1..MaxParts words joined by "-"
BuildNames ==
    { JoinWith(parts, "-") : parts \in UNION {[1..n -> Words] : n \in 1..MaxParts} }

\* names as electron-packager writes them: <name>-<platform>-<arch>
PackagerNames ==
    {"app-darwin-x64", "app-darwin-arm64", "App-Win32-ia32", "app-win32-x64",
     "app-linux-x64"}

\* the main entries a manifest may declare
Mains == {"index.js", "./dist/main.js"}

\* package.json as packed into app.asar and as a loose file
PackedManifest(main) == [main |-> main, name |-> "packed-app"]
LooseManifest(main) == [main |-> main, name |-> "loose-app"]

\* the shapes of a packaged build: the platform it was packaged for ("none":
\* the build directory does not exist), whether it holds its executable and
\* its resources directory, what the resources directory holds, the
\* manifest's main
Shapes ==
    [layout : {"darwin", "win32", "none"}, exec : BOOLEAN, res : BOOLEAN,
     asar : BOOLEAN, loose : BOOLEAN, main : Mains, other : BOOLEAN]

\* the shapes electron-packager writes by default, and the missing directory
PlainShapes ==
    {sh \in Shapes : /\ sh.exec /\ sh.res /\ sh.asar /\ ~sh.loose
                     /\ sh.main = "index.js" /\ ~sh.other}

\* a function of one or two arguments as a set of pairs
Entry(k, v) == k :> v

\* the directories and files of a build of shape sh packaged into directory
\* dir; with sh.other a second bundle, or executable, lies next to the first
MkFs(dir, sh) ==
    LET res == IF sh.layout = "darwin" THEN dir \o "/MyApp.app/Contents/Resources"
               ELSE dir \o "/resources"
        resList == <<"electron.icns">>
                     \o (IF sh.asar THEN <<"app.asar">> ELSE <<>>)
                     \o (IF sh.loose THEN <<"app">> ELSE <<>>)
        top == IF sh.layout = "darwin"
               THEN Entry(dir, <<"LICENSE", "MyApp.app">>
                                 \o (IF sh.other THEN <<"Zed.app">> ELSE <<>>)
                                 \o <<"version">>)
                      @@ (IF sh.other
                          THEN Entry(dir \o "/Zed.app", <<"Contents">>)
                                 @@ Entry(dir \o "/Zed.app/Contents",
                                          <<"Info.plist", "MacOS">>)
                                 @@ Entry(dir \o "/Zed.app/Contents/MacOS", <<"Zed">>)
                          ELSE <<>>)
                      @@ Entry(dir \o "/MyApp.app", <<"Contents">>)
                      @@ Entry(dir \o "/MyApp.app/Contents",
                               <<"Info.plist", "MacOS">>
                                 \o (IF sh.res THEN <<"Resources">> ELSE <<>>))
                      @@ Entry(dir \o "/MyApp.app/Contents/MacOS",
                               IF sh.exec THEN <<"MyApp">> ELSE <<>>)
               ELSE Entry(dir, <<"LICENSE">>
                                 \o (IF sh.exec THEN <<"MyApp.exe">> ELSE <<>>)
                                 \o (IF sh.other THEN <<"Zed.exe">> ELSE <<>>)
                                 \o (IF sh.res THEN <<"resources">> ELSE <<>>))
        app == IF sh.loose THEN Entry(res \o "/app", <<"package.json">>) ELSE <<>>
        archive == IF sh.asar
                   THEN Entry(res \o "/app.asar",
                              [asar |-> TRUE,
                               entries |-> Entry("package.json", PackedManifest(sh.main))])
                   ELSE <<>>
        loose == IF sh.loose
                 THEN Entry(res \o "/app/package.json",
                            [asar |-> FALSE,
                             entries |-> Entry("package.json", LooseManifest(sh.main))])
                 ELSE <<>>
    IN  IF sh.layout = "none" THEN [dirs |-> <<>>, files |-> <<>>]
        ELSE IF ~sh.res THEN [dirs |-> top, files |-> <<>>]
        ELSE [dirs |-> top @@ Entry(res, resList) @@ app, files |-> archive @@ loose]

NoFs == [dirs |-> <<>>, files |-> <<>>]

PlatformNotFound == "Platform not found in directory name"
PlatformNotSupported == "Platform not supported"
PathTypeError == "TypeError: The \"path\" argument must be of type string"

\* fs.readdirSync(p) succeeds
IsDir(f, p) == Resolve(p) \in DOMAIN f.dirs
readdirSync(f, p) == f.dirs[Resolve(p)]

\* list.find((fileName) => fileName.endsWith(suffix)); "" stands for undefined
RECURSIVE Find(_, _)
Find(list, suffix) ==
    IF list = <<>> THEN ""
    ELSE IF EndsWith(Head(list), suffix) THEN Head(list)
    ELSE Find(Tail(list), suffix)

\* lines 231-238: the build directory once a .app / .exe suffix is cut
TrueBuildDir(dir) ==
    LET d1 == IF EndsWith(dir, ".app") THEN Dirname(dir) ELSE dir
    IN  IF EndsWith(d1, ".exe") THEN Dirname(d1) ELSE d1

\* lines 231-238: the platform the suffix implies; "" stands for undefined
SuffixPlatform(dir) ==
    LET d1 == IF EndsWith(dir, ".app") THEN Dirname(dir) ELSE dir
        p1 == IF EndsWith(dir, ".app") THEN "darwin" ELSE ""
    IN  IF EndsWith(d1, ".exe") THEN "win32" ELSE p1

\* lines 243-259 with the test for "osx" forgotten
NamePlatformWithoutOsx(baseName) ==
    LET p1 == IF Includes(baseName, "win") THEN "win32" ELSE ""
        p2 == IF Includes(baseName, "linux") \/ Includes(baseName, "ubuntu")
                   \/ Includes(baseName, "debian")
              THEN "linux" ELSE p1
    IN  IF Includes(baseName, "darwin") \/ Includes(baseName, "mac")
        THEN "darwin" ELSE p2
\* lines 243-259 with the first test that matches deciding
NamePlatformFirstMatch(baseName) ==
    IF Includes(baseName, "win") THEN "win32"
    ELSE IF Includes(baseName, "linux") \/ Includes(baseName, "ubuntu")
              \/ Includes(baseName, "debian")
    THEN "linux"
    ELSE IF Includes(baseName, "darwin") \/ Includes(baseName, "mac")
              \/ Includes(baseName, "osx")
    THEN "darwin"
    ELSE ""
\* lines 243-259: three tests in a row, each overwriting the platform
NamePlatform(baseName) ==
    LET p1 == IF Includes(baseName, "win") THEN "win32" ELSE ""
        p2 == IF Includes(baseName, "linux") \/ Includes(baseName, "ubuntu")
                   \/ Includes(baseName, "debian")
              THEN "linux" ELSE p1
    IN  IF Includes(baseName, "darwin") \/ Includes(baseName, "mac")
             \/ Includes(baseName, "osx")
        THEN "darwin" ELSE p2

\* lines 267-275 with the 64-bit test left out
NameArchWithoutX64(baseName) ==
    LET a1 == IF Includes(baseName, "x32") \/ Includes(baseName, "i386")
              THEN "x32" ELSE ""
    IN  IF Includes(baseName, "arm64") THEN "arm64" ELSE a1
\* lines 267-275: three tests in a row; "" stands for undefined
NameArch(baseName) ==
    LET a1 == IF Includes(baseName, "x32") \/ Includes(baseName, "i386")
              THEN "x32" ELSE ""
        a2 == IF Includes(baseName, "x64") THEN "x64" ELSE a1
    IN  IF Includes(baseName, "arm64") THEN "arm64" ELSE a2

\* the result of parseElectronApp: the ElectronAppInfo it returns, or the
\* error it throws together with the platform and arch it had inferred
ParseThrew(e, platform, arch) ==
    [kind |-> "throw", error |-> e, executable |-> "", main |-> "", asar |-> FALSE,
     name |-> "", platform |-> platform, resourcesDir |-> "", arch |-> arch]
ParseReturned(executable, main, asar, name, platform, resourcesDir, arch) ==
    [kind |-> "return", error |-> "", executable |-> executable, main |-> main,
     asar |-> asar, name |-> name, platform |-> platform,
     resourcesDir |-> resourcesDir, arch |-> arch]
NotParsed ==
    [kind |-> "none", error |-> "", executable |-> "", main |-> "", asar |-> FALSE,
     name |-> "", platform |-> "", resourcesDir |-> "", arch |-> ""]

\* lines 312-325 / 346-360 with the manifest always read from the loose file
ReadManifestLooseOnly(f, dir, executable, resourcesDir, platform, arch) ==
    LET pkgPath == PathJoin(<<resourcesDir, "app", "package.json">>)
    IN  IF Resolve(pkgPath) \notin DOMAIN f.files
        THEN ParseThrew(ENOENT, platform, arch)
        ELSE LET packageJson == f.files[Resolve(pkgPath)].entries["package.json"]
             IN  ParseReturned(executable,
                               PathJoin(<<resourcesDir, "app", packageJson.main>>),
                               FALSE, packageJson.name, platform, resourcesDir, arch)
\* lines 309-325 / 343-360: the resources directory is listed, the manifest
\* is read from app.asar when the listing has it and from app/package.json
\* when not, and main is joined onto the place the manifest came from
ReadManifest(f, dir, executable, resourcesDir, platform, arch) ==
    IF ~IsDir(f, resourcesDir) THEN ParseThrew(ENOENT, platform, arch)
    ELSE LET resourcesList == readdirSync(f, resourcesDir)
             asar == "app.asar" \in Range(resourcesList)
             asarPath == PathJoin(<<resourcesDir, "app.asar">>)
             pkgPath == PathJoin(<<resourcesDir, "app", "package.json">>)
         IN  IF asar
             THEN IF Resolve(asarPath) \notin DOMAIN f.files
                  THEN ParseThrew(ENOENT, platform, arch)
                  ELSE LET packageJson == f.files[Resolve(asarPath)].entries["package.json"]
                       IN  ParseReturned(executable,
                                         PathJoin(<<asarPath, packageJson.main>>),
                                         asar, packageJson.name, platform,
                                         resourcesDir, arch)
             ELSE IF Resolve(pkgPath) \notin DOMAIN f.files
                  THEN ParseThrew(ENOENT, platform, arch)
                  ELSE LET packageJson == f.files[Resolve(pkgPath)].entries["package.json"]
                       IN  ParseReturned(executable,
                                         PathJoin(<<resourcesDir, "app", packageJson.main>>),
                                         asar, packageJson.name, platform,
                                         resourcesDir, arch)

\* lines 300-325: the macOS structure
ParseDarwin(f, dir, platform, arch) ==
    IF ~IsDir(f, dir) THEN ParseThrew(ENOENT, platform, arch)
    ELSE LET appBundle == Find(readdirSync(f, dir), ".app")
             appDir == PathJoin(<<dir, appBundle, "Contents", "MacOS">>)
         IN  IF appBundle = "" THEN ParseThrew(PathTypeError, platform, arch)
             ELSE IF ~IsDir(f, appDir) THEN ParseThrew(ENOENT, platform, arch)
             ELSE IF readdirSync(f, appDir) = <<>>
                  THEN ParseThrew(PathTypeError, platform, arch)
             ELSE ReadManifest(f, dir,
                               PathJoin(<<appDir, readdirSync(f, appDir)[1]>>),
                               PathJoin(<<dir, appBundle, "Contents", "Resources">>),
                               platform, arch)

\* lines 336-360: the Windows structure
ParseWin32(f, dir, platform, arch) ==
    IF ~IsDir(f, dir) THEN ParseThrew(ENOENT, platform, arch)
    ELSE LET exe == Find(readdirSync(f, dir), ".exe")
         IN  IF exe = "" THEN ParseThrew(PathTypeError, platform, arch)
             ELSE ReadManifest(f, dir, PathJoin(<<dir, exe>>),
                               PathJoin(<<dir, "resources">>), platform, arch)

\* parseElectronApp with Linux builds read as Windows builds are
parseElectronAppLinuxAsWindows(f, dir0) ==
    LET dir == TrueBuildDir(dir0)
        baseName == ToLowerCase(Basename(dir))
        platform == IF SuffixPlatform(dir0) = "" THEN NamePlatform(baseName)
                    ELSE SuffixPlatform(dir0)
        arch == NameArch(baseName)
    IN  IF platform = "" THEN ParseThrew(PlatformNotFound, "", "")
        ELSE IF platform = "darwin" THEN ParseDarwin(f, dir, platform, arch)
        ELSE ParseWin32(f, dir, platform, arch)
\* parseElectronApp(buildDir) on filesystem f
parseElectronApp(f, dir0) ==
    LET dir == TrueBuildDir(dir0)
        baseName == ToLowerCase(Basename(dir))
        platform == IF SuffixPlatform(dir0) = "" THEN NamePlatform(baseName)
                    ELSE SuffixPlatform(dir0)
        arch == NameArch(baseName)
    IN  IF platform = "" THEN ParseThrew(PlatformNotFound, "", "")
        ELSE IF platform = "darwin" THEN ParseDarwin(f, dir, platform, arch)
        ELSE IF platform = "win32" THEN ParseWin32(f, dir, platform, arch)
        ELSE ParseThrew(PlatformNotSupported, platform, arch)

\* the build directory arguments for a build named n: the directory itself,
\* absolute or relative to the working directory, its .app, its .exe
BuildDirArgs(n) ==
    { "/proj/out/" \o n, "out/" \o n,
      "/proj/out/" \o n \o "/MyApp.app", "/proj/out/" \o n \o "/MyApp.exe" }

\* the path of the second bundle or executable of a build directory
OtherArgs(n) ==
    { "/proj/out/" \o n \o "/Zed.app", "/proj/out/" \o n \o "/Zed.exe" }

ParseIdle == buildDir = "" /\ fs = NoFs /\ info = NotParsed

\* every name with the default shapes, the packager's names with every shape;
\* a second bundle lies in complete builds only
InitParse ==
    \E n \in BuildNames \cup PackagerNames, sh \in Shapes :
        /\ n \notin PackagerNames => sh \in PlainShapes
        /\ sh.other => sh.exec /\ sh.res /\ sh.layout # "none"
        /\ buildDir \in BuildDirArgs(n) \cup (IF sh.other THEN OtherArgs(n) ELSE {})
        /\ fs = MkFs("/proj/out/" \o n, sh)
        /\ info = NotParsed

\* the test calls parseElectronApp(buildDir)
ParseElectronApp ==
    /\ info = NotParsed
    /\ info' = parseElectronApp(fs, buildDir)
    /\ UNCHANGED <<buildDir, fs>>

\* the test calls parseElectronApp(findLatestBuild()): the build found is
\* parsed, whatever platform it was packaged for
ParseLatestBuild ==
    /\ latest.kind = "return"
    /\ info = NotParsed
    /\ buildDir' = latest.value
    /\ \E sh \in PlainShapes : fs' = MkFs(latest.value, sh)
    /\ info' = parseElectronApp(fs', buildDir')
    /\ UNCHANGED <<outDir, latest>>

(***************************************************************************)
(* electronWaitForFunction                                                 *)
(***************************************************************************)

\* the longest script of a probe
MaxProbeLen == 3
\* the evaluations after which a probe that stays false is left alone
MaxEvals == 4
\* the milliseconds of one setTimeout
PollInterval == 100

ProbeError == "Error: thrown by the probe"

\* what a probe does: return false, return true, throw
Outcomes == {"false", "true", "throw"}

Probes == UNION {[1..n -> Outcomes] : n \in 1..MaxProbeLen}

\* the k-th evaluation of probe p; its last outcome stays
ProbeAt(p, k) == IF k <= Len(p) THEN p[k] ELSE p[Len(p)]

\* the loop with its condition not negated: while (await evaluate(fn, arg))
AfterEvaluateNotNegated(outcome) ==
    CASE outcome = "throw" -> "failed"
      [] outcome = "true"  -> "sleeping"
      [] outcome = "false" -> "returned"
\* the loop that goes on when the probe throws
AfterEvaluateSwallowing(outcome) ==
    CASE outcome = "throw" -> "sleeping"
      [] outcome = "true"  -> "returned"
      [] outcome = "false" -> "sleeping"
\* line 151, while (!(await electronApp.evaluate(fn, arg))): a rejected
\* evaluate leaves the function, a true result ends the loop, a false one
\* enters its body
AfterEvaluate(outcome) ==
    CASE outcome = "throw" -> "failed"
      [] outcome = "true"  -> "returned"
      [] outcome = "false" -> "sleeping"

WaitIdle ==
    /\ probe = <<"true">> /\ wpc = "idle" /\ evals = 0 /\ inFlight = 0
    /\ waited = 0 /\ wlog = <<>> /\ wresult = NoResult
    /\ waitId = ""

InitWait ==
    /\ probe \in Probes
    /\ wpc = "idle" /\ evals = 0 /\ inFlight = 0
    /\ waited = 0 /\ wlog = <<>> /\ wresult = NoResult
    /\ waitId = ""

\* the test calls electronWaitForFunction: the first evaluate is sent
WaitCall ==
    /\ wpc = "idle"
    /\ wpc' = "evaluating"
    /\ inFlight' = inFlight + 1
    /\ UNCHANGED <<probe, evals, waited, wlog, wresult, waitId>>

\* the main process evaluates the probe and the awaited evaluate settles
WaitEvaluate ==
    /\ wpc = "evaluating"
    /\ LET outcome == ProbeAt(probe, evals + 1)
       IN  /\ wpc' = AfterEvaluate(outcome)
           /\ wresult' = CASE wpc' = "failed"   -> Threw(ProbeError)
                           [] wpc' = "returned" -> Returned("undefined")
                           [] OTHER             -> wresult
    /\ evals' = evals + 1
    /\ inFlight' = inFlight - 1
    /\ wlog' = Append(wlog, "evaluate")
    /\ UNCHANGED <<probe, waited, waitId>>

\* the timer of line 153 fires and the loop sends the next evaluate
WaitTimeout ==
    /\ wpc = "sleeping"
    /\ evals < MaxEvals
    /\ wpc' = "evaluating"
    /\ inFlight' = inFlight + 1
    /\ waited' = waited + PollInterval
    /\ wlog' = Append(wlog, "wait")
    /\ UNCHANGED <<probe, evals, wresult, waitId>>

(***************************************************************************)
(* The main process (src/main/index.ts) and the bridge calls                *)
(***************************************************************************)

\* the most windows created in a run
MaxWindows == 2
\* the most listeners added to ipcMain besides those of main/index.ts
MaxSpies == 2

Messages ==
    {"new-window", "how-many-windows", "main-synchronous-data",
     "main-asynchronous-data", "no-such-message"}

\* listeners a test adds with ipcMain.on, and the messages it adds them to
SpyHandlers == {"spy"}
SpiedMessages == {"new-window", "no-such-message"}

\* main/index.ts lines 97, 120, 124: the listeners added with ipcMain.on
\* when the module is loaded
LoadedListeners ==
    [m \in Messages |->
        CASE m = "new-window"             -> <<"createWindow">>
          [] m = "main-synchronous-data"  -> <<"mainSynchronousData">>
          [] m = "main-asynchronous-data" -> <<"mainAsynchronousData">>
          [] OTHER                        -> <<>>]

\* main/index.ts line 104: the handlers set with ipcMain.handle, which keeps
\* them apart from the listeners; "" stands for none
invokeHandlers ==
    [m \in Messages |-> IF m = "how-many-windows" THEN "howManyWindows" ELSE ""]

\* what a handler returns; a promise stands for the value it resolves to,
\* which is what evaluate hands back
HandlerResult(h, cnt) ==
    CASE h = "createWindow"         -> "undefined"
      [] h = "mainSynchronousData"  -> "Main Synchronous Data"
      [] h = "mainAsynchronousData" -> "Main Asynchronous Data"
      [] h = "howManyWindows"       -> ToString(cnt)
      [] OTHER                      -> h

\* the windows a run of handlers creates: one for each createWindow
Created(hs) == Len(SelectSeq(hs, LAMBDA h : h = "createWindow"))

\* main/index.ts lines 13-50, createWindow() called k times from window
\* counter cnt: the ids the new windows are given
NewWindowIds(cnt, k) == [i \in 1..k |-> cnt + i]

\* the values of process.env.CI ("" stands for unset) and process.platform
Envs == [CI : {"", "1", "e2e"}, platform : {"darwin", "win32"}]

\* main/index.ts lines 24-37: the webPreferences of the window createWindow
\* makes when the counter has reached cnt
webPreferences(e, cnt) ==
    LET testing == e.CI = "e2e"
    IN  [additionalArguments |-> <<"--window-id=" \o ToString(cnt)>>,
         nodeIntegration |-> IF testing THEN TRUE ELSE FALSE,
         contextIsolation |-> IF testing THEN FALSE ELSE TRUE]

\* process.argv of a window's renderer process
Argv(pref) == <<"electron", "--type=renderer">> \o pref.additionalArguments

\* a title that is always that of the first window
documentTitleOne(argv) == "Window 1"
\* renderer/preload.ts lines 8-12: the title the DOMContentLoaded listener
\* sets; "" stands for a title left as it was
documentTitle(argv) ==
    LET found == SelectSeq(argv, LAMBDA arg : StartsWith(arg, "--window-id"))
    IN  IF found = <<>> THEN ""
        ELSE "Window " \o Split(found[1], "=")[2]

\* main/index.ts lines 13-50: createWindow() called k times
createWindow(k) ==
    /\ count + k <= MaxWindows
    /\ count' = count + k
    /\ windows' = windows \o NewWindowIds(count, k)
    /\ prefs' = prefs \o [i \in 1..k |-> webPreferences(env, count + i)]
    /\ titles' = titles \o [i \in 1..k |-> ""]
    /\ open' = open \cup (Len(windows) + 1 .. Len(windows) + k)

NoItem == [id |-> "", label |-> "", click |-> "", role |-> "", submenu |-> <<>>]

\* the menu Electron sets before the ready event: roles, no ids
DefaultMenu ==
    << [id |-> "", label |-> "File", click |-> "", role |-> "filemenu",
        submenu |-> << [id |-> "", label |-> "Quit", click |-> "", role |-> "quit",
                        submenu |-> <<>>] >>],
       [id |-> "", label |-> "Help", click |-> "", role |-> "help",
        submenu |-> << [id |-> "", label |-> "Learn More", click |-> "openExternal",
                        role |-> "", submenu |-> <<>>] >>] >>

\* main/index.ts lines 55-62
newWindowItem ==
    [id |-> "new-window", label |-> "New Window", click |-> "createWindow",
     role |-> "", submenu |-> <<>>]

\* main/index.ts lines 52-73: the New Window item goes first into the submenu
\* of the item with role filemenu, when there is one
initMenu(items) ==
    LET found == {i \in DOMAIN items : items[i].role = "filemenu"}
    IN  IF found = {} THEN items
        ELSE LET i == CHOOSE i \in found : \A j \in found : i <= j
             IN  [items EXCEPT ![i].submenu = <<newWindowItem>> \o @]

\* a lookup that reads the top level of the menu only
getMenuItemByIdTopLevel(items, id) ==
    LET top == SelectSeq(items, LAMBDA item : item.id = id)
    IN  IF top # <<>> THEN top[1] ELSE NoItem
\* menu.getMenuItemById(id): the item of this level with the id, else the
\* first found in a submenu; NoItem stands for null
RECURSIVE getMenuItemById(_, _)
getMenuItemById(items, id) ==
    LET top == SelectSeq(items, LAMBDA item : item.id = id)
        subs == [i \in DOMAIN items |-> getMenuItemById(items[i].submenu, id)]
        hits == {i \in DOMAIN items : subs[i] # NoItem}
    IN  IF items = <<>> THEN NoItem
        ELSE IF top # <<>> THEN top[1]
        ELSE IF hits = {} THEN NoItem
        ELSE subs[CHOOSE i \in hits : \A j \in hits : i <= j]

\* an emit that runs the first listener only
emitFirstOnly(ls) == IF ls = <<>> THEN <<>> ELSE <<ls[1]>>
\* ipcMain.emit(message, ...args): the listeners it runs, in order
emit(ls) == ls

\* ipcMain.listenerCount(message)
listenerCount(reg, message) == Len(reg[message])

\* the last listener instead of the first
LastListener(ls) == ls[Len(ls)]
\* ipcMain.listeners(message)[0]
FirstListener(ls) == ls[1]

NoListeners == "No listeners for message"
MenuItemNotFound == "Menu item not found"

MenuIds == {"new-window", "no-such-item"}

\* the messages a test sends from a window
RendererMessages == {"new-window", "how-many-windows"}

RequireNotDefined == "ReferenceError: require is not defined"
NoHandler == "No handler registered"

\* part_001 lines 64-65, 85-86: require('electron') works in the page of a
\* window with nodeIntegration and without contextIsolation
\* a page where require is defined whatever the window's preferences are
CanRequireAnywhere(pref) == TRUE
CanRequire(pref) == pref.nodeIntegration /\ ~pref.contextIsolation

\* the bridge calls a test makes, each with its first argument
Calls ==
    [op : {"ipcMainEmit", "ipcMainInvokeFirstListener"}, arg : Messages]
      \cup [op : {"clickMenuItemById"}, arg : MenuIds]
      \cup [op : {"ipcRendererSend", "ipcRendererInvoke"}, arg : RendererMessages]

NoCall == [op |-> "", arg |-> "", kind |-> "none", value |-> ""]
Pending(c) == [op |-> c.op, arg |-> c.arg, kind |-> "pending", value |-> ""]
Done(b, kind, value) == [op |-> b.op, arg |-> b.arg, kind |-> kind, value |-> value]

\* the main process once main/index.ts is loaded, before the ready event
InitApp ==
    /\ listeners = LoadedListeners
    /\ menu = DefaultMenu
    /\ count = 0
    /\ windows = <<>>
    /\ ready = FALSE
    /\ bridge = NoCall
    /\ invoked = <<>>
    /\ clicked = <<>>
    /\ env \in Envs
    /\ prefs = <<>>
    /\ titles = <<>>
    /\ open = {}
    /\ quit = FALSE

\* the main process of an app nothing is done with
AppIdle == InitApp /\ env = [CI |-> "", platform |-> "darwin"]

\* main/index.ts lines 75-78: app.on('ready'): initMenu(), createWindow()
AppReady ==
    /\ ~ready /\ ~quit
    /\ ready' = TRUE
    /\ menu' = initMenu(menu)
    /\ createWindow(1)
    /\ UNCHANGED <<listeners, bridge, invoked, clicked, env, quit>>

\* the listeners added since main/index.ts was loaded
RECURSIVE SpiesOf(_, _)
SpiesOf(reg, ms) ==
    IF ms = {} THEN 0
    ELSE LET m == CHOOSE m \in ms : TRUE
         IN  Len(reg[m]) - Len(LoadedListeners[m]) + SpiesOf(reg, ms \ {m})
Spies(reg) == SpiesOf(reg, Messages)

\* ipcMain.on(message, spy)
IpcMainOn(message, h) ==
    /\ Spies(listeners) < MaxSpies
    /\ listeners' = [listeners EXCEPT ![message] = Append(@, h)]
    /\ UNCHANGED <<menu, ready, bridge, invoked, clicked, env, quit, winVars>>

\* the test makes a bridge call: electronApp.evaluate(...) is sent
BridgeCall(c) ==
    /\ bridge.kind # "pending" /\ ~quit
    /\ bridge' = Pending(c)
    /\ invoked' = <<>>
    /\ clicked' = <<>>
    /\ UNCHANGED <<listeners, menu, ready, env, quit, winVars>>

\* part_001 lines 113-118: the snippet of ipcMainEmit runs in the main process
RunIpcMainEmit ==
    /\ bridge.kind = "pending" /\ bridge.op = "ipcMainEmit" /\ ~quit
    /\ LET ran == emit(listeners[bridge.arg])
       IN  /\ invoked' = ran
           /\ createWindow(Created(ran))
           /\ bridge' = Done(bridge, "return",
                             IF listenerCount(listeners, bridge.arg) > 0
                             THEN "true" ELSE "false")
    /\ UNCHANGED <<listeners, menu, ready, clicked, env, quit>>

\* part_001 lines 126-135: the snippet of ipcMainInvokeFirstListener runs
RunIpcMainInvokeFirstListener ==
    /\ bridge.kind = "pending" /\ bridge.op = "ipcMainInvokeFirstListener" /\ ~quit
    /\ IF listenerCount(listeners, bridge.arg) > 0
       THEN LET h == FirstListener(listeners[bridge.arg])
            IN  /\ invoked' = <<h>>
                /\ createWindow(Created(<<h>>))
                /\ bridge' = Done(bridge, "return", HandlerResult(h, count))
       ELSE /\ bridge' = Done(bridge, "throw", NoListeners)
            /\ UNCHANGED <<invoked, winVars>>
    /\ UNCHANGED <<listeners, menu, ready, clicked, env, quit>>

\* part_001 lines 15-23: the snippet of clickMenuItemById runs
RunClickMenuItemById ==
    /\ bridge.kind = "pending" /\ bridge.op = "clickMenuItemById" /\ ~quit
    /\ LET menuItem == getMenuItemById(menu, bridge.arg)
           made == IF menuItem.click = "createWindow" THEN 1 ELSE 0
       IN  IF menuItem # NoItem
           THEN /\ clicked' = <<menuItem.label>>
                /\ createWindow(made)
                /\ bridge' = Done(bridge, "return", "undefined")
           ELSE /\ bridge' = Done(bridge, "throw", MenuItemNotFound)
                /\ UNCHANGED <<clicked, winVars>>
    /\ UNCHANGED <<listeners, menu, ready, invoked, env, quit>>

\* part_001 lines 73-80: the snippet of ipcRendererSend runs in the page of
\* an open window; the message reaches ipcMain's listeners
RunIpcRendererSend ==
    /\ bridge.kind = "pending" /\ bridge.op = "ipcRendererSend" /\ ~quit
    /\ \E w \in open :
         IF CanRequire(prefs[w])
         THEN LET ran == emit(listeners[bridge.arg])
              IN  /\ invoked' = ran
                  /\ createWindow(Created(ran))
                  /\ bridge' = Done(bridge, "return", "undefined")
         ELSE /\ bridge' = Done(bridge, "throw", RequireNotDefined)
              /\ UNCHANGED <<invoked, winVars>>
    /\ UNCHANGED <<listeners, menu, ready, clicked, env, quit>>

\* part_001 lines 94-101: the snippet of ipcRendererInvoke runs in the page
\* of an open window; the handler set with ipcMain.handle replies
RunIpcRendererInvoke ==
    /\ bridge.kind = "pending" /\ bridge.op = "ipcRendererInvoke" /\ ~quit
    /\ \E w \in open :
         IF ~CanRequire(prefs[w])
         THEN /\ bridge' = Done(bridge, "throw", RequireNotDefined)
              /\ UNCHANGED <<invoked, winVars>>
         ELSE IF invokeHandlers[bridge.arg] = ""
         THEN /\ bridge' = Done(bridge, "throw", NoHandler)
              /\ UNCHANGED <<invoked, winVars>>
         ELSE LET h == invokeHandlers[bridge.arg]
              IN  /\ invoked' = <<h>>
                  /\ createWindow(Created(<<h>>))
                  /\ bridge' = Done(bridge, "return", HandlerResult(h, count))
    /\ UNCHANGED <<listeners, menu, ready, clicked, env, quit>>

\* renderer/preload.ts lines 3-13: DOMContentLoaded in window w
DOMContentLoaded(w) ==
    /\ w \in open /\ ~quit
    /\ titles[w] = ""
    /\ titles' = [titles EXCEPT ![w] = documentTitle(Argv(prefs[w]))]
    /\ UNCHANGED <<listeners, menu, ready, bridge, invoked, clicked, env, quit,
                   count, windows, prefs, open>>

\* renderer/preload.ts lines 5-7, main/index.ts lines 97-99: the button of
\* window w is clicked once its onclick is set
ClickNewWindowButton(w) ==
    /\ w \in open /\ ~quit
    /\ titles[w] # ""
    /\ createWindow(Created(emit(listeners["new-window"])))
    /\ UNCHANGED <<listeners, menu, ready, bridge, invoked, clicked, env, quit>>

\* main/index.ts lines 80-84: window w is closed; with the last window
\* closed the app quits, except on macOS
CloseWindow(w) ==
    /\ w \in open /\ ~quit
    /\ open' = open \ {w}
    /\ quit' = (open' = {} /\ env.platform # "darwin")
    /\ UNCHANGED <<listeners, menu, ready, bridge, invoked, clicked, env,
                   count, windows, prefs, titles>>

\* main/index.ts lines 86-92: the app is activated (macOS)
Activate ==
    /\ ready /\ ~quit
    /\ env.platform = "darwin"
    /\ IF open = {} THEN createWindow(1) ELSE UNCHANGED winVars
    /\ UNCHANGED <<listeners, menu, ready, bridge, invoked, clicked, env, quit>>

(***************************************************************************)
(* waitForMenuItem                                                         *)
(***************************************************************************)

\* a probe that finds every id
menuProbeAlwaysTrue(items, id) == "true"
\* part_001 lines 54-57: the probe of waitForMenuItem, run in the main
\* process against the application menu
menuProbe(items, id) ==
    IF getMenuItemById(items, id) # NoItem THEN "true" ELSE "false"

\* part_001 lines 48-60: the test calls waitForMenuItem(electronApp, id) and
\* electronWaitForFunction sends the first evaluate
WaitForMenuItem(id) ==
    /\ wpc = "idle" /\ ~quit
    /\ waitId' = id
    /\ wpc' = "evaluating"
    /\ inFlight' = inFlight + 1
    /\ UNCHANGED <<probe, evals, waited, wlog, wresult>>

\* part_001 line 151 with the probe of lines 54-57: the main process
\* evaluates the probe on the menu of that moment. The evaluations are
\* counted and logged up to MaxEvals
MenuEvaluate ==
    /\ wpc = "evaluating" /\ waitId # "" /\ ~quit
    /\ LET outcome == menuProbe(menu, waitId)
       IN  /\ wpc' = AfterEvaluate(outcome)
           /\ wresult' = CASE wpc' = "failed"   -> Threw(ProbeError)
                           [] wpc' = "returned" -> Returned("undefined")
                           [] OTHER             -> wresult
    /\ inFlight' = inFlight - 1
    /\ IF evals < MaxEvals
       THEN evals' = evals + 1 /\ wlog' = Append(wlog, "evaluate")
       ELSE UNCHANGED <<evals, wlog>>
    /\ UNCHANGED <<probe, waited, waitId>>

\* part_001 line 153 in waitForMenuItem: the timer fires and the loop sends
\* the next evaluate. The waits are counted and logged up to MaxEvals
MenuTimeout ==
    /\ wpc = "sleeping" /\ waitId # ""
    /\ wpc' = "evaluating"
    /\ inFlight' = inFlight + 1
    /\ IF evals < MaxEvals
       THEN waited' = waited + PollInterval /\ wlog' = Append(wlog, "wait")
       ELSE UNCHANGED <<waited, wlog>>
    /\ UNCHANGED <<probe, evals, wresult, waitId>>

(***************************************************************************)
(* The run of e2e-tests/main.spec.ts                                       *)
(***************************************************************************)

\* part_000 line 5
maxFailures == 2

Awaited(call) == [call |-> call, awaited |-> TRUE]
Floating(call) == [call |-> call, awaited |-> FALSE]

\* main.spec.ts lines 22-78: the driver operations of every test, in order,
\* each awaited or not
Script ==
    << << Awaited("electronApp.firstWindow"), Awaited("page.waitForSelector"),
          Awaited("page.$eval"), Awaited("page.title") >>,
       << Awaited("page.$") >>,
       << Awaited("page.click"), Awaited("electronApp.waitForEvent") >>,
       << Awaited("page.title") >>,
       << Floating("electronApp.evaluate"), Awaited("electronApp.waitForEvent"),
          Awaited("newPage.title") >>,
       << Awaited("page.evaluate"), Awaited("electronApp.waitForEvent"),
          Awaited("newPage.title") >>,
       << Awaited("page.evaluate") >> >>

\* the driver operations that run a snippet in the app: the bridge calls
BridgeOps == {"electronApp.evaluate", "page.evaluate"}

Running == [state |-> "running", closes |-> 0]

\* main.spec.ts lines 36, 48-50, 59-62: the statement of a test that makes
\* the app create a window, by the test's number
Trigger ==
    [t \in 1..Len(Script) |->
        CASE t = 3 -> "page.click"
          [] t = 5 -> "electronApp.evaluate"
          [] t = 6 -> "page.evaluate"
          [] OTHER -> ""]

\* main.spec.ts lines 37, 51, 64: electronApp.waitForEvent('window')
WaitForWindow == "electronApp.waitForEvent"

\* a window the app has created: its number and the test whose trigger
\* created it, 0 for the window of the ready handler
Opened(w, by) == [window |-> w, by |-> by]

\* main.spec.ts lines 39, 54, 67: the tests that end with page = newPage
KeepsNewPage == {3, 5, 6}

\* the operation is called on the test file's page
OnPage(call) == StartsWith(call, "page.")

\* a wait for the 'window' event is registered
Registered(fl) == \E i \in DOMAIN fl : fl[i] = WaitForWindow

\* an afterAll hook that closes nothing
afterAllWithoutClose(as, app) == as
\* main.spec.ts lines 16-18: await electronApp.close(); with electronApp
\* undefined the hook throws and closes nothing
afterAll(as, app) ==
    IF app = 0 THEN as
    ELSE [as EXCEPT ![app] = [state |-> "closed", closes |-> @.closes + 1]]

RunIdle ==
    /\ rpc = "done"
    /\ test = 1
    /\ stmt = 1
    /\ waiting = FALSE
    /\ flight = <<>>
    /\ electronApp = 0
    /\ apps = <<>>
    /\ failures = 0
    /\ spawned = 0
    /\ opening = <<>>
    /\ fired = FALSE
    /\ lost = {}
    /\ got = {}
    /\ page = 0

\* the runner has started its first worker
InitRun ==
    /\ rpc = "beforeAll"
    /\ test = 1
    /\ stmt = 1
    /\ waiting = FALSE
    /\ flight = <<>>
    /\ electronApp = 0
    /\ apps = <<>>
    /\ failures = 0
    /\ spawned = 0
    /\ opening = <<>>
    /\ fired = FALSE
    /\ lost = {}
    /\ got = {}
    /\ page = 0

\* main.spec.ts lines 7-14: electron.launch() resolves and electronApp is set
BeforeAllLaunches ==
    /\ rpc = "beforeAll"
    /\ apps' = Append(apps, Running)
    /\ electronApp' = Len(apps) + 1
    /\ rpc' = "test"
    /\ spawned' = 1
    /\ opening' = <<Opened(1, 0)>>
    /\ UNCHANGED <<test, stmt, waiting, flight, failures, fired, lost, got, page>>

\* main.spec.ts lines 7-14: electron.launch() rejects; the hook fails, and
\* with it the test it was run for
BeforeAllFails ==
    /\ rpc = "beforeAll"
    /\ failures' = failures + 1
    /\ test' = test + 1
    /\ rpc' = "afterAll"
    /\ UNCHANGED <<stmt, waiting, flight, electronApp, apps, eventVars>>

\* the test runs its next statement: the driver operation is issued, and an
\* awaited one suspends the test
IssueStatement ==
    /\ rpc = "test" /\ ~waiting
    /\ stmt <= Len(Script[test])
    /\ OnPage(Script[test][stmt].call) => page # 0
    /\ flight' = Append(flight, Script[test][stmt].call)
    /\ IF Script[test][stmt].awaited
       THEN waiting' = TRUE /\ stmt' = stmt
       ELSE waiting' = FALSE /\ stmt' = stmt + 1
    /\ UNCHANGED <<rpc, test, electronApp, apps, failures, eventVars>>

\* main/index.ts lines 97-99, renderer/preload.ts lines 6-8: the trigger of
\* the test, the oldest operation in flight, runs in the app: 'new-window'
\* reaches its listener and createWindow() makes a window
TriggerRuns ==
    /\ rpc = "test"
    /\ flight # <<>>
    /\ Head(flight) = Trigger[test]
    /\ ~fired
    /\ fired' = TRUE
    /\ spawned' = spawned + 1
    /\ opening' = Append(opening, Opened(spawned + 1, test))
    /\ UNCHANGED <<rpc, test, stmt, waiting, flight, electronApp, apps,
                   failures, lost, got, page>>

\* the app returns the result of the oldest operation in flight; the test
\* resumes when that is the one it awaits. A trigger returns once it has run,
\* firstWindow() once a window is known, and a wait for the 'window' event
\* only with an event. The driver handles what the app sends when the test
\* is suspended in an await: until then the test runs on without a break
OperationReturns ==
    /\ rpc = "test" /\ waiting
    /\ flight # <<>>
    /\ Head(flight) # WaitForWindow
    /\ Head(flight) = Trigger[test] => fired
    /\ Head(flight) = "electronApp.firstWindow" => spawned > Len(opening)
    /\ flight' = Tail(flight)
    /\ fired' = FALSE
    /\ page' = IF Head(flight) = "electronApp.firstWindow" THEN 1 ELSE page
    /\ IF waiting /\ Len(flight) = 1
       THEN waiting' = FALSE /\ stmt' = stmt + 1
       ELSE UNCHANGED <<waiting, stmt>>
    /\ UNCHANGED <<rpc, test, electronApp, apps, failures, spawned, opening,
                   lost, got>>

\* main.spec.ts lines 37, 51, 64: the driver emits the 'window' event of the
\* oldest window still opening. The wait registered at that moment obtains
\* the window and the test resumes; with no wait registered the event is
\* emitted to nobody
WindowEvent ==
    /\ rpc = "test" /\ waiting
    /\ opening # <<>>
    /\ opening' = Tail(opening)
    /\ IF Registered(flight)
       THEN /\ got' = got \cup {[test |-> test, window |-> Head(opening).window,
                                  by |-> Head(opening).by]}
            /\ flight' = SelectSeq(flight, LAMBDA op : op # WaitForWindow)
            /\ waiting' = FALSE
            /\ stmt' = stmt + 1
            /\ UNCHANGED lost
       ELSE /\ lost' = IF Head(opening).by = 0 THEN lost
                       ELSE lost \cup {Head(opening)}
            /\ UNCHANGED <<got, flight, waiting, stmt>>
    /\ UNCHANGED <<rpc, test, electronApp, apps, failures, spawned, fired, page>>

\* the test has run its last statement and passed
TestPasses ==
    /\ rpc = "test" /\ ~waiting
    /\ stmt > Len(Script[test])
    /\ test' = test + 1
    /\ stmt' = 1
    /\ flight' = <<>>
    /\ rpc' = IF test = Len(Script) THEN "afterAll" ELSE "test"
    /\ fired' = FALSE
    /\ page' = IF test \in KeepsNewPage
               THEN (CHOOSE g \in got : g.test = test).window
               ELSE page
    /\ UNCHANGED <<waiting, electronApp, apps, failures, spawned, opening, lost, got>>

\* the awaited operation throws, an expect fails, the test times out or its
\* next statement reads a property of the undefined page: the test fails and
\* the worker is torn down
TestFails ==
    /\ rpc = "test"
    /\ \/ waiting
       \/ /\ stmt <= Len(Script[test])
          /\ OnPage(Script[test][stmt].call)
          /\ page = 0
    /\ failures' = failures + 1
    /\ test' = test + 1
    /\ stmt' = 1
    /\ waiting' = FALSE
    /\ flight' = <<>>
    /\ rpc' = "afterAll"
    /\ fired' = FALSE
    /\ UNCHANGED <<electronApp, apps, spawned, opening, lost, got, page>>

\* main.spec.ts lines 16-18, part_000 line 5: the worker's afterAll hook; a
\* new worker goes on with the tests left unless maxFailures is reached
AfterAll ==
    /\ rpc = "afterAll"
    /\ apps' = afterAll(apps, electronApp)
    /\ electronApp' = 0
    /\ rpc' = IF test > Len(Script) \/ failures >= maxFailures
              THEN "done" ELSE "beforeAll"
    /\ spawned' = 0
    /\ opening' = <<>>
    /\ page' = 0
    /\ UNCHANGED <<test, stmt, waiting, flight, failures, fired, lost, got>>

(***************************************************************************)
(* Properties of findLatestBuild                                           *)
(***************************************************************************)

\* the entries of DirEntries that are valid builds: directories whose name
\* has a platform token
ValidBuildNames == {"app-darwin-x64", "app-win32-x64", "App-Linux-arm64"}

ValidBuilds(dir) ==
    {i \in DOMAIN dir.entries :
        dir.entries[i].isDirectory /\ dir.entries[i].name \in ValidBuildNames}

DistinctTimes(dir) ==
    \A i, j \in ValidBuilds(dir) :
        i # j => dir.entries[i].mtimeMs # dir.entries[j].mtimeMs

NewestValid(dir) ==
    CHOOSE i \in ValidBuilds(dir) :
        \A j \in ValidBuilds(dir) : dir.entries[i].mtimeMs >= dir.entries[j].mtimeMs

\* C1: when the out directory holds at least one valid build and the valid
\* builds have pairwise distinct modification times, findLatestBuild returns
\* the path of the valid build modified last, whatever invalid entries the
\* listing holds, whatever their times and places in the listing.
C1_LatestIsNewestValidBuild ==
    (/\ latest # NoResult
     /\ outDir.exists
     /\ ValidBuilds(outDir) # {}
     /\ DistinctTimes(outDir))
    => latest = Returned("/proj/out/" \o outDir.entries[NewestValid(outDir)].name)

\* C1 happens: an invalid entry listed first and modified after every valid
\* build, two valid builds of which the one listed last is the newer
C1_Witness ==
    /\ latest.kind = "return"
    /\ Len(outDir.entries) = 3
    /\ ValidBuilds(outDir) = {2, 3}
    /\ outDir.entries[1].mtimeMs > outDir.entries[3].mtimeMs
    /\ outDir.entries[3].mtimeMs > outDir.entries[2].mtimeMs
    /\ latest.value = "/proj/out/" \o outDir.entries[3].name

\* C2: findLatestBuild fails with the no-build-found error whenever no entry
\* of the out directory is a valid build, and also when the out directory
\* does not exist.
C2_NoBuildFoundWithoutValidBuild ==
    (/\ latest # NoResult
     /\ (~outDir.exists \/ ValidBuilds(outDir) = {}))
    => latest = Threw(NoBuildFound)

\* the valid builds that share the greatest modification time
TiedNewest(dir) ==
    {i \in ValidBuilds(dir) :
        \A j \in ValidBuilds(dir) : dir.entries[i].mtimeMs >= dir.entries[j].mtimeMs}

\* the names of the valid builds in lexicographic (code unit) order
NameOrder == <<"App-Linux-arm64", "app-darwin-x64", "app-win32-x64">>
Rank(name) == CHOOSE r \in DOMAIN NameOrder : NameOrder[r] = name

\* C17: when two or more valid builds share the greatest modification time,
\* findLatestBuild returns the one whose name is lexicographically last,
\* whatever the order of the listing.
C17_TieGoesToLastName ==
    (/\ latest # NoResult
     /\ outDir.exists
     /\ Cardinality(TiedNewest(outDir)) >= 2)
    => \E i \in TiedNewest(outDir) :
          /\ \A j \in TiedNewest(outDir) :
                Rank(outDir.entries[i].name) >= Rank(outDir.entries[j].name)
          /\ latest = Returned("/proj/out/" \o outDir.entries[i].name)

\* the valid builds packaged for Linux
LinuxBuildNames == {"App-Linux-arm64"}

\* C20: parseElectronApp fails with the platform-not-supported error and
\* returns nothing for every build directory it infers to be a Linux build;
\* so parseElectronApp(findLatestBuild()) fails whenever the valid build
\* modified last is a Linux build, which findLatestBuild accepts.
C20_LinuxBuildIsNotSupported ==
    info # NotParsed
    => /\ info.platform = "linux"
            => info.kind = "throw" /\ info.error = PlatformNotSupported
       /\ (/\ DistinctTimes(outDir)
           /\ ValidBuilds(outDir) # {}
           /\ outDir.entries[NewestValid(outDir)].name \in LinuxBuildNames)
            => /\ latest = Returned("/proj/out/" \o outDir.entries[NewestValid(outDir)].name)
               /\ buildDir = latest.value
               /\ info.kind = "throw"
               /\ info.error = PlatformNotSupported

\* C20 happens: the Linux build is the newest of several, holds a complete
\* Windows-shaped build, and parsing it has failed
C20_Witness ==
    /\ Cardinality(ValidBuilds(outDir)) >= 2
    /\ latest = Returned("/proj/out/App-Linux-arm64")
    /\ IsDir(fs, "/proj/out/App-Linux-arm64/resources")
    /\ info.kind = "throw"
    /\ info.error = PlatformNotSupported

(***************************************************************************)
(* Properties of parseElectronApp                                          *)
(***************************************************************************)

\* the lower-cased base name the inference reads
BaseNameOf(dir0) == ToLowerCase(Basename(TrueBuildDir(dir0)))

PlatformValues == {"win32", "darwin", "linux"}

\* the platform tokens as the claim lists them
ClaimedTokens ==
    [p \in PlatformValues |->
        CASE p = "win32"  -> {"win", "windows", "win32"}
          [] p = "darwin" -> {"darwin", "mac", "macos", "osx"}
          [] p = "linux"  -> {"linux", "ubuntu"}]

\* the platform tokens with debian among Linux's
TokensWithDebian ==
    [p \in PlatformValues |->
        IF p = "linux" THEN ClaimedTokens[p] \cup {"debian"} ELSE ClaimedTokens[p]]

\* the platforms of which a token occurs in the base name
PlatformsNamed(baseName, tokens) ==
    {p \in PlatformValues : \E t \in tokens[p] : Includes(baseName, t)}

\* the platform inference of a directory argument without .app / .exe suffix
\* follows the tokens: one platform named gives that platform, none named
\* gives one of the errors, whatever the filesystem holds
InferenceFollows(tokens, errors) ==
    (info # NotParsed /\ SuffixPlatform(buildDir) = "")
    => LET named == PlatformsNamed(BaseNameOf(buildDir), tokens)
       IN  /\ Cardinality(named) = 1 => info.platform \in named
           /\ named = {} => info.kind = "throw" /\ info.error \in errors

\* C3 as stated: a base name with exactly one platform token (win / windows /
\* win32, darwin / mac / macos / osx, linux / ubuntu) is inferred to be of
\* that platform, and one with no such token fails with the
\* unsupported-platform error (either of the two platform errors) before the
\* filesystem is read.
C3_InferenceFollowsClaimedTokens ==
    InferenceFollows(ClaimedTokens, {PlatformNotFound, PlatformNotSupported})

\* C3 amended: the same with debian among the tokens of Linux; a name with
\* no token fails with the platform-not-found error.
C3_InferenceFollowsTokens == InferenceFollows(TokensWithDebian, {PlatformNotFound})

\* C3 happens: a name whose only platform token is debian is parsed
C3_Witness ==
    /\ info # NotParsed
    /\ SuffixPlatform(buildDir) = ""
    /\ Includes(BaseNameOf(buildDir), "debian")
    /\ PlatformsNamed(BaseNameOf(buildDir), TokensWithDebian) = {"linux"}
    /\ info.platform = "linux"

ArchTokens == {"x32", "i386", "x64", "arm64"}

ArchOfToken(t) == IF t \in {"x32", "i386"} THEN "x32" ELSE t

ArchTokensIn(baseName) == {t \in ArchTokens : Includes(baseName, t)}

\* the build below dir has every part parseElectronApp reads for the platform
CompleteBundle(f, dir, platform) ==
    LET res == IF platform = "darwin" THEN dir \o "/MyApp.app/Contents/Resources"
               ELSE dir \o "/resources"
    IN  /\ res \in DOMAIN f.dirs
        /\ \/ /\ platform = "darwin"
              /\ (dir \o "/MyApp.app/Contents/MacOS") \in DOMAIN f.dirs
              /\ f.dirs[dir \o "/MyApp.app/Contents/MacOS"] # <<>>
           \/ platform = "win32" /\ "MyApp.exe" \in Range(f.dirs[dir])
        /\ \/ (res \o "/app.asar") \in DOMAIN f.files
           \/ (res \o "/app/package.json") \in DOMAIN f.files

\* C4: a base name with at most one architecture token gives that token's
\* architecture (x32 / i386: x32, x64: x64, arm64: arm64) and none with no
\* token; a missing token does not make parseElectronApp fail.
C4_ArchFollowsToken ==
    (info # NotParsed /\ info.error # PlatformNotFound)
    => LET tokens == ArchTokensIn(BaseNameOf(buildDir))
       IN  /\ Cardinality(tokens) = 1 => \E t \in tokens : info.arch = ArchOfToken(t)
           /\ tokens = {} => info.arch = ""
           /\ (/\ tokens = {}
               /\ info.platform \in {"darwin", "win32"}
               /\ CompleteBundle(fs, Resolve(TrueBuildDir(buildDir)), info.platform))
              => info.kind = "return"

\* C4 happens: a build without architecture token is parsed and returned,
\* its arch undefined
C4_Witness ==
    /\ info.kind = "return"
    /\ ArchTokensIn(BaseNameOf(buildDir)) = {}
    /\ info.arch = ""

\* C5: parseElectronApp returns asar = true exactly when app.asar is in the
\* resources directory; then the manifest is the archive's and a main of
\* "index.js" gives <archive>/index.js; otherwise the manifest is
\* app/package.json and a main of "index.js" gives <resources>/app/index.js.
C5_MainFollowsPacking ==
    info.kind = "return"
    => LET dir == TrueBuildDir(buildDir)
           res == IF info.platform = "darwin"
                  THEN dir \o "/MyApp.app/Contents/Resources"
                  ELSE dir \o "/resources"
           archive == res \o "/app.asar"
           manifest == res \o "/app/package.json"
           packed == Resolve(archive) \in DOMAIN fs.files
       IN  /\ info.resourcesDir = res
           /\ info.asar = packed
           /\ packed =>
                LET json == fs.files[Resolve(archive)].entries["package.json"]
                IN  /\ info.name = json.name
                    /\ json.main = "index.js" => info.main = archive \o "/index.js"
           /\ ~packed =>
                LET json == fs.files[Resolve(manifest)].entries["package.json"]
                IN  /\ info.name = json.name
                    /\ json.main = "index.js" => info.main = res \o "/app/index.js"

\* C5 happens: a build that holds both app.asar and a loose app directory,
\* with different manifests, is parsed from the archive
C5_Witness ==
    /\ info.kind = "return"
    /\ info.asar
    /\ Resolve(info.resourcesDir \o "/app/package.json") \in DOMAIN fs.files
    /\ info.name = "packed-app"
    /\ info.main = info.resourcesDir \o "/app.asar/index.js"

IsAbsolute(p) == StartsWith(p, "/")

\* C14: every ElectronAppInfo parseElectronApp returns has an absolute
\* executable path and an absolute main path, whether the build directory
\* argument is absolute or relative, with or without .app / .exe suffix.
C14_ReturnedPathsAreAbsolute ==
    info.kind = "return" => IsAbsolute(info.executable) /\ IsAbsolute(info.main)

\* the platform tests in the order the code makes them
TestOrder == <<"win32", "linux", "darwin">>

\* the places in TestOrder of the tests a base name passes
TestsPassed(baseName) ==
    {i \in DOMAIN TestOrder : TestOrder[i] \in PlatformsNamed(baseName, TokensWithDebian)}

\* the inferred platform of a name that passes more than one platform test
\* is that of the test Pick chooses among those passed
InferencePicks(Pick(_)) ==
    (info # NotParsed /\ SuffixPlatform(buildDir) = "")
    => LET passed == TestsPassed(BaseNameOf(buildDir))
       IN  Cardinality(passed) > 1 => info.platform = TestOrder[Pick(passed)]

FirstOf(S) == CHOOSE i \in S : \A j \in S : i <= j
LastOf(S) == CHOOSE i \in S : \A j \in S : i >= j

\* C18 as stated: a base name that matches the tokens of more than one
\* platform (also by one token lying within another, as win in darwin) is
\* inferred as the platform of the first test that matches, in the order
\* Windows, Linux, macOS.
C18_FirstMatchWins == InferencePicks(FirstOf)

\* C18 amended: it is inferred as the platform of the last test that
\* matches: macOS overrides Linux and Windows, Linux overrides Windows.
C18_LastMatchWins == InferencePicks(LastOf)

\* C18 happens: a name with a Windows and a Linux token is parsed as linux
C18_Witness ==
    /\ info # NotParsed
    /\ SuffixPlatform(buildDir) = ""
    /\ TestsPassed(BaseNameOf(buildDir)) = {1, 2}
    /\ info.platform = "linux"

\* the error the specification names for a build that lacks a part
MalformedBundleError == "MalformedBundleError"

\* C19: parseElectronApp on a macOS or Windows build directory that lacks a
\* part (no .app / .exe entry, an empty Contents/MacOS, no resources
\* directory, no manifest) fails with the malformed-bundle error and returns
\* no ElectronAppInfo.
C19_MissingPartIsMalformedBundle ==
    (/\ info # NotParsed
     /\ info.platform \in {"darwin", "win32"}
     /\ IsDir(fs, TrueBuildDir(buildDir))
     /\ ~CompleteBundle(fs, Resolve(TrueBuildDir(buildDir)), info.platform))
    => info.kind = "throw" /\ info.error = MalformedBundleError

\* the path given names an entry of its parent directory
GivenEntryExists ==
    /\ Dirname(buildDir) \in DOMAIN fs.dirs
    /\ Basename(buildDir) \in Range(fs.dirs[Dirname(buildDir)])

\* C24: given the path of a bundle (.app) that exists, parseElectronApp
\* returns an executable inside that bundle; given the path of an executable
\* (.exe) that exists, it returns that executable, also when the parent
\* directory holds other entries ending in .app or .exe; and the platform it
\* reports is the one of the suffix, whatever the parent directory's name.
C24_GivenBundleIsUsed ==
    (info.kind = "return" /\ GivenEntryExists) =>
        /\ EndsWith(buildDir, ".app") =>
              /\ StartsWith(info.executable, buildDir \o "/")
              /\ info.platform = "darwin"
        /\ EndsWith(buildDir, ".exe") =>
              /\ info.executable = buildDir
              /\ info.platform = "win32"

(***************************************************************************)
(* Properties of electronWaitForFunction                                   *)
(***************************************************************************)

\* the evaluation at which the probe first does something else than return
\* false, 0 when it never does
FirstNotFalse(p) ==
    LET hits == {k \in DOMAIN p : p[k] # "false"}
    IN  IF hits = {} THEN 0 ELSE CHOOSE k \in hits : \A j \in hits : k <= j

\* evaluations and waits in turn, n evaluations in all
RECURSIVE Alternating(_)
Alternating(n) ==
    IF n = 0 THEN <<>>
    ELSE IF n = 1 THEN <<"evaluate">>
    ELSE Alternating(n - 1) \o <<"wait", "evaluate">>

\* C6: with a probe false on its first N-1 evaluations and true on the N-th,
\* electronWaitForFunction returns after exactly N evaluations and makes no
\* more; between two evaluations lies one wait of 100 ms; at no moment are
\* two evaluations in flight.
C6_ReturnsAfterNEvaluations ==
    LET n == FirstNotFalse(probe)
    IN  /\ inFlight <= 1
        /\ (n > 0 /\ probe[n] = "true") =>
             /\ evals <= n
             /\ wlog = Alternating(evals) \o (IF inFlight = 1 /\ evals > 0 THEN <<"wait">> ELSE <<>>)
             /\ waited = 100 * (Len(wlog) - evals)
             /\ wpc = "returned" <=> (evals = n /\ inFlight = 0)
             /\ wpc = "returned" => wresult = Returned("undefined") /\ waited = 100 * (n - 1)
             /\ wpc # "failed"

\* C6 happens: a probe true at its third evaluation has been waited for
C6_Witness ==
    /\ FirstNotFalse(probe) = 3
    /\ probe[3] = "true"
    /\ wpc = "returned"
    /\ evals = 3

\* C7: when the probe throws at its k-th evaluation, electronWaitForFunction
\* fails with that failure at once: no (k+1)-th evaluation, no further wait,
\* the failure not swallowed.
C7_ProbeFailurePropagates ==
    LET k == FirstNotFalse(probe)
    IN  (k > 0 /\ probe[k] = "throw") =>
          /\ evals <= k
          /\ evals = k => /\ wpc = "failed"
                          /\ wresult = Threw(ProbeError)
                          /\ inFlight = 0
                          /\ wlog = Alternating(k)
                          /\ waited = 100 * (k - 1)
          /\ evals < k => wpc # "failed" /\ wresult = NoResult

\* C7 happens: a probe that throws at its second evaluation has failed the call
C7_Witness ==
    /\ FirstNotFalse(probe) = 2
    /\ probe[2] = "throw"
    /\ wpc = "failed"
    /\ evals = 2

(***************************************************************************)
(* Properties of the bridge calls                                          *)
(***************************************************************************)

\* the pending bridge call op runs in this step
Runs(op) == bridge.kind = "pending" /\ bridge.op = op /\ bridge'.kind # "pending"

\* how often h is in hs
Times(hs, h) == Len(SelectSeq(hs, LAMBDA x : x = h))

AllHandlers ==
    {"createWindow", "mainSynchronousData", "mainAsynchronousData", "howManyWindows"}
      \cup SpyHandlers

RECURSIVE IdsIn(_)
IdsIn(items) ==
    IF items = <<>> THEN {}
    ELSE ({Head(items).id} \ {""}) \cup IdsIn(Head(items).submenu) \cup IdsIn(Tail(items))

\* C9: clickMenuItemById fails with the menu-item-not-found error and runs no
\* click when the menu has no item with the id; when it has one, the click
\* of that item runs exactly once and no other.
C9_ClickRunsTheItemOnce ==
    [][Runs("clickMenuItemById") =>
         IF bridge.arg \in IdsIn(menu)
         THEN /\ bridge'.kind = "return"
              /\ clicked' = <<"New Window">>
              /\ bridge.arg = "new-window"
              /\ count' = count + 1
              /\ windows' = Append(windows, count + 1)
              /\ invoked' = <<>>
         ELSE /\ bridge' = Done(bridge, "throw", MenuItemNotFound)
              /\ clicked' = <<>>
              /\ UNCHANGED <<count, windows, invoked>>]_vars

\* C9 happens: the New Window item has been clicked through the bridge
C9_Witness ==
    /\ bridge.op = "clickMenuItemById"
    /\ bridge.kind = "return"
    /\ clicked = <<"New Window">>
    /\ count = 2

\* ipcMainInvokeFirstListener runs the first of the handlers hs and returns
\* its result, or fails with the no-listener error when hs is empty
InvokesFirstOf(hs) ==
    IF hs # <<>>
    THEN /\ bridge' = Done(bridge, "return", HandlerResult(hs[1], count))
         /\ invoked' = <<hs[1]>>
         /\ count' = count + Times(<<hs[1]>>, "createWindow")
    ELSE /\ bridge' = Done(bridge, "throw", NoListeners)
         /\ invoked' = <<>>
         /\ UNCHANGED <<count, windows>>

\* C10 as stated: ipcMainInvokeFirstListener runs only the first handler of
\* the message, once, and returns its result, whether the handler was added
\* with ipcMain.on or set with ipcMain.handle; it fails with the no-listener
\* error when the message has no handler.
C10_InvokesFirstHandler ==
    [][Runs("ipcMainInvokeFirstListener") =>
         InvokesFirstOf(listeners[bridge.arg]
                          \o (IF invokeHandlers[bridge.arg] = "" THEN <<>>
                              ELSE <<invokeHandlers[bridge.arg]>>))]_vars

\* C10 amended: the handlers it sees are the listeners added with ipcMain.on;
\* a message whose only handler was set with ipcMain.handle fails with the
\* no-listener error.
C10_InvokesFirstListener ==
    [][Runs("ipcMainInvokeFirstListener") => InvokesFirstOf(listeners[bridge.arg])]_vars

\* C10 happens: the first of two listeners of new-window has been invoked,
\* the second not
C10_Witness ==
    /\ bridge.op = "ipcMainInvokeFirstListener"
    /\ bridge.kind = "return"
    /\ bridge.arg = "new-window"
    /\ Len(listeners["new-window"]) = 2
    /\ invoked = <<"createWindow">>

(***************************************************************************)
(* Properties of the windows                                               *)
(***************************************************************************)

\* C11: every window created has nodeIntegration on and contextIsolation off
\* when CI is "1", and nodeIntegration off and contextIsolation on when CI
\* is not set.
C11_CIOneRelaxesIsolation ==
    \A w \in DOMAIN prefs :
        /\ env.CI = "1" => prefs[w].nodeIntegration /\ ~prefs[w].contextIsolation
        /\ env.CI = "" => ~prefs[w].nodeIntegration /\ prefs[w].contextIsolation

\* a step that is one of the events that ask for a new window
NewWindowTrigger ==
    \/ ~ready /\ ready'
    \/ \E w \in 1..MaxWindows : ClickNewWindowButton(w)
    \/ Runs("ipcRendererSend") /\ bridge.arg = "new-window" /\ bridge'.kind = "return"
    \/ Runs("ipcMainEmit") /\ bridge.arg = "new-window"
    \/ Runs("clickMenuItemById") /\ bridge.arg = "new-window" /\ bridge'.kind = "return"
    \/ Activate /\ open = {}

\* C12: the n-th window created since launch is titled "Window n" once its
\* page has loaded, and every event that asks for a new window (ready, the
\* button, a new-window message from a renderer or emitted in the main
\* process, the New Window menu item, activate with no window open) makes
\* exactly one window, numbered one more than the one before.
C12_NthWindowIsWindowN ==
    /\ [](\A n \in DOMAIN windows :
             /\ windows[n] = n
             /\ titles[n] \in {"", "Window " \o ToString(n)})
    /\ [](Len(titles) = Len(windows) /\ count = Len(windows))
    /\ [][NewWindowTrigger =>
            /\ Len(windows') = Len(windows) + 1
            /\ windows'[Len(windows')] = Len(windows) + 1
            /\ open' = open \cup {Len(windows')}]_vars

\* C12 happens: the first window is closed and the second, the only one
\* open, has loaded its page
C12_Witness ==
    /\ Len(windows) >= 2
    /\ open = {2}
    /\ titles[2] = "Window 2"

\* C13: the reply of the how-many-windows handler is the number of windows
\* open at that moment, after any creations and closings.
C13_RepliesOpenWindows ==
    [][(/\ Runs("ipcRendererInvoke")
        /\ bridge.arg = "how-many-windows"
        /\ bridge'.kind = "return")
       => bridge'.value = ToString(Cardinality(open))]_vars

\* the configurations a window is created with
Relaxed(pref) == pref.nodeIntegration /\ ~pref.contextIsolation
Hardened(pref) == ~pref.nodeIntegration /\ pref.contextIsolation

\* C21: ipcRendererSend and ipcRendererInvoke reach the main process only
\* from a window of the relaxed configuration: there one call delivers one
\* message (every listener of the channel runs once; invoke returns the reply
\* of the one registered handler); from a window of the hardened
\* configuration the call fails, no listener or handler runs and no window is
\* created.
C21_RendererCallsNeedRelaxedWindow ==
    /\ [](\A w \in open : Relaxed(prefs[w]) \/ Hardened(prefs[w]))
    /\ [][Runs("ipcRendererSend") =>
            /\ (\A w \in open : Relaxed(prefs[w])) =>
                  /\ bridge'.kind = "return"
                  /\ invoked' = listeners[bridge.arg]
            /\ (\A w \in open : Hardened(prefs[w])) =>
                  /\ bridge'.kind = "throw"
                  /\ invoked' = <<>>
                  /\ UNCHANGED winVars]_vars
    /\ [][Runs("ipcRendererInvoke") =>
            /\ (/\ \A w \in open : Relaxed(prefs[w])
                /\ invokeHandlers[bridge.arg] # "") =>
                  /\ bridge'.kind = "return"
                  /\ invoked' = <<invokeHandlers[bridge.arg]>>
                  /\ bridge'.value = HandlerResult(invokeHandlers[bridge.arg], count)
            /\ (\A w \in open : Hardened(prefs[w])) =>
                  /\ bridge'.kind = "throw"
                  /\ invoked' = <<>>
                  /\ UNCHANGED winVars]_vars

\* C21 happens: new-window sent from a relaxed window has run its listener
\* and a spy once each and has opened a second window
C21_Witness ==
    /\ bridge.op = "ipcRendererSend"
    /\ bridge.arg = "new-window"
    /\ bridge.kind = "return"
    /\ \A w \in open : Relaxed(prefs[w])
    /\ invoked = <<"createWindow", "spy">>
    /\ count = 2

\* C23: waitForMenuItem(app, 'new-window'), started before or after the
\* ready handler has built the menu, never fails and in the end returns, and
\* it has returned only in states where the application menu has an item
\* with that id.
C23_WaitForMenuItemReturnsWithItem ==
    /\ [](wpc # "failed")
    /\ []((wpc = "returned" /\ waitId = "new-window") => "new-window" \in IdsIn(menu))
    /\ (wpc # "idle" /\ waitId = "new-window") ~> (wpc = "returned")

\* C23 happens: the wait was started before the ready event, has found the
\* item missing more than once, and has returned
C23_Witness ==
    /\ waitId = "new-window"
    /\ wpc = "returned"
    /\ ready
    /\ evals >= 3
    /\ waited >= 2 * PollInterval

(***************************************************************************)
(* Properties of the test run                                              *)
(***************************************************************************)

\* C15: at most one bridge call of the test is in flight, and the test
\* issues no driver operation (a bridge call, a wait for the window event)
\* before the bridge call before it has returned.
C15_NothingIssuedDuringBridgeCall ==
    /\ [](Cardinality({i \in DOMAIN flight : flight[i] \in BridgeOps}) <= 1)
    /\ [][Len(flight') > Len(flight)
            => \A i \in DOMAIN flight : flight[i] \notin BridgeOps]_vars

\* C16: every app the run launches is closed in the end, by exactly one
\* close(), when all tests pass and when tests fail or time out.
C16_EveryLaunchIsClosedOnce ==
    /\ [](\A a \in DOMAIN apps :
             /\ apps[a].closes <= 1
             /\ apps[a].state = "closed" <=> apps[a].closes = 1)
    /\ <>[](\A a \in DOMAIN apps : apps[a].state = "closed" /\ apps[a].closes = 1)

\* C16 happens: two tests have failed, the run has stopped, and the apps of
\* both workers are closed
C16_Witness ==
    /\ rpc = "done"
    /\ failures = maxFailures
    /\ test <= Len(Script)
    /\ Len(apps) = 2
    /\ \A a \in DOMAIN apps : apps[a].state = "closed"

\* C22: under every interleaving of the app's window creation with the
\* test's registration of its wait, no window a trigger created has its
\* 'window' event emitted before the wait is registered, and the window a
\* wait obtains is the one the trigger of its own test created.
C22_WaitObtainsTriggeredWindow ==
    /\ [](lost = {})
    /\ [](\A g \in got : g.by = g.test)

(***************************************************************************)
(* Specifications                                                          *)
(***************************************************************************)

\* findLatestBuild on every out directory
InitB == InitBuild /\ ParseIdle /\ WaitIdle /\ AppIdle /\ RunIdle
NextB ==
    \/ FindLatestBuild /\ UNCHANGED <<parseVars, waitVars, appVars, runVars>>
    \/ ParseLatestBuild /\ UNCHANGED <<waitVars, appVars, runVars>>
SpecBuild == InitB /\ [][NextB]_vars

\* parseElectronApp on every build directory
InitP == InitParse /\ BuildIdle /\ WaitIdle /\ AppIdle /\ RunIdle
NextP == ParseElectronApp /\ UNCHANGED <<buildVars, waitVars, appVars, runVars>>
SpecParse == InitP /\ [][NextP]_vars

\* electronWaitForFunction on every probe
InitW == InitWait /\ BuildIdle /\ ParseIdle /\ AppIdle /\ RunIdle
NextW ==
    \/ WaitCall /\ UNCHANGED <<buildVars, parseVars, appVars, runVars>>
    \/ WaitEvaluate /\ UNCHANGED <<buildVars, parseVars, appVars, runVars>>
    \/ WaitTimeout /\ UNCHANGED <<buildVars, parseVars, appVars, runVars>>
SpecWait == InitW /\ [][NextW]_vars

\* the main process and the bridge calls of a test
Init == InitApp /\ BuildIdle /\ ParseIdle /\ WaitIdle /\ RunIdle
Next ==
    \/ AppReady /\ UNCHANGED <<buildVars, parseVars, waitVars, runVars>>
    \/ \E m \in SpiedMessages, h \in SpyHandlers :
          IpcMainOn(m, h) /\ UNCHANGED <<buildVars, parseVars, waitVars, runVars>>
    \/ \E c \in Calls : BridgeCall(c) /\ UNCHANGED <<buildVars, parseVars, waitVars, runVars>>
    \/ RunIpcMainEmit /\ UNCHANGED <<buildVars, parseVars, waitVars, runVars>>
    \/ RunIpcMainInvokeFirstListener /\ UNCHANGED <<buildVars, parseVars, waitVars, runVars>>
    \/ RunClickMenuItemById /\ UNCHANGED <<buildVars, parseVars, waitVars, runVars>>
    \/ RunIpcRendererSend /\ UNCHANGED <<buildVars, parseVars, waitVars, runVars>>
    \/ RunIpcRendererInvoke /\ UNCHANGED <<buildVars, parseVars, waitVars, runVars>>
    \/ \E w \in 1..MaxWindows :
          DOMContentLoaded(w) /\ UNCHANGED <<buildVars, parseVars, waitVars, runVars>>
    \/ \E w \in 1..MaxWindows :
          ClickNewWindowButton(w) /\ UNCHANGED <<buildVars, parseVars, waitVars, runVars>>
    \/ \E w \in 1..MaxWindows :
          CloseWindow(w) /\ UNCHANGED <<buildVars, parseVars, waitVars, runVars>>
    \/ Activate /\ UNCHANGED <<buildVars, parseVars, waitVars, runVars>>
Spec == Init /\ [][Next]_vars

\* waitForMenuItem against the app from its launch on; the ready event
\* comes, and an evaluate sent and a timer set come to their end
InitM == InitApp /\ WaitIdle /\ BuildIdle /\ ParseIdle /\ RunIdle
NextM ==
    \/ AppReady /\ UNCHANGED <<buildVars, parseVars, waitVars, runVars>>
    \/ \E id \in MenuIds :
          WaitForMenuItem(id) /\ UNCHANGED <<buildVars, parseVars, appVars, runVars>>
    \/ MenuEvaluate /\ UNCHANGED <<buildVars, parseVars, appVars, runVars>>
    \/ MenuTimeout /\ UNCHANGED <<buildVars, parseVars, appVars, runVars>>
SpecMenu ==
    /\ InitM /\ [][NextM]_vars
    /\ WF_vars(AppReady /\ UNCHANGED <<buildVars, parseVars, waitVars, runVars>>)
    /\ WF_vars(MenuEvaluate /\ UNCHANGED <<buildVars, parseVars, appVars, runVars>>)
    /\ WF_vars(MenuTimeout /\ UNCHANGED <<buildVars, parseVars, appVars, runVars>>)

\* the run of the tests; the runner's timeouts keep it going
InitR == InitRun /\ BuildIdle /\ ParseIdle /\ WaitIdle /\ AppIdle
NextR ==
    \/ BeforeAllLaunches /\ UNCHANGED <<buildVars, parseVars, waitVars, appVars>>
    \/ BeforeAllFails /\ UNCHANGED <<buildVars, parseVars, waitVars, appVars>>
    \/ IssueStatement /\ UNCHANGED <<buildVars, parseVars, waitVars, appVars>>
    \/ TriggerRuns /\ UNCHANGED <<buildVars, parseVars, waitVars, appVars>>
    \/ OperationReturns /\ UNCHANGED <<buildVars, parseVars, waitVars, appVars>>
    \/ WindowEvent /\ UNCHANGED <<buildVars, parseVars, waitVars, appVars>>
    \/ TestPasses /\ UNCHANGED <<buildVars, parseVars, waitVars, appVars>>
    \/ TestFails /\ UNCHANGED <<buildVars, parseVars, waitVars, appVars>>
    \/ AfterAll /\ UNCHANGED <<buildVars, parseVars, waitVars, appVars>>
SpecRun == InitR /\ [][NextR]_vars /\ WF_vars(NextR)

====
